---- MODULE Spec2Model ----
(***************************************************************************)
(* Model of the ontology section of xml_reader.py: ontology_dict and the   *)
(* recursive walk parse_root_descendants.                                  *)
(*                                                                         *)
(* An XML element is modelled by the ordered sequence of its child tags.   *)
(* A child tag is a record [tag, text, kids]; the kids of a descendants    *)
(* tag are the descendant elements below it (each again a sequence of      *)
(* tags).  Python objects that are shared by reference (the per-call       *)
(* descendant_dict) live in a heap indexed by the number of the call that  *)
(* created them, and the accumulator maps keys to heap references.         *)
(***************************************************************************)
EXTENDS Integers, Sequences, FiniteSets, TLC

\* ------------------------------------------------------------------ bounds
MaxTags == 2      \* child tags of one descendant element
MaxNodes == 2     \* descendant elements below the root of a deep ontology
MaxRoots == 2     \* roots of a broad ontology

\* ------------------------------------------------------------ input space
Names == {"A", "B"}                 \* texts of a descendant's term tag
Annotations == {"x"}                \* texts of a definition tag
RootTerms == {"Physiological effect", "Process", "Role", "Disposition"}   \* texts of a root's term tag

Term(t) == [tag |-> "term", text |-> t, kids |-> <<>>]
Definition(t) == [tag |-> "definition", text |-> t, kids |-> <<>>]
Level == [tag |-> "level", text |-> "1", kids |-> <<>>]
Descendants(f) == [tag |-> "descendants", text |-> "", kids |-> f]

NodeTags == {Term(t) : t \in Names} \cup {Definition(a) : a \in Annotations}

TagsOf(s) == {s[i].tag : i \in 1..Len(s)}

\* Tag sequences of at most m tags over the given tags, each tag name at most once.
RECURSIVE TagSeqs(_, _)
TagSeqs(tags, m) ==
    IF m = 0 THEN {<<>>}
    ELSE LET S == TagSeqs(tags, m - 1)
         IN S \cup {Append(x[1], x[2]) : x \in {y \in S \X tags : y[2].tag \notin TagsOf(y[1])}}

\* NodesOfSize(k): descendant elements whose subtree holds exactly k elements;
\* ForestsOfSize(n): sibling sequences holding exactly n elements in all.
RECURSIVE NodesOfSize(_), ForestsOfSize(_)
NodesOfSize(k) ==
    IF k = 1 THEN TagSeqs(NodeTags, MaxTags)
    ELSE {s \in TagSeqs(NodeTags \cup {Descendants(f) : f \in ForestsOfSize(k - 1)}, MaxTags) :
              "descendants" \in TagsOf(s)}
ForestsOfSize(n) ==
    IF n = 0 THEN {<<>>}
    ELSE UNION {{<<x>> \o r : x \in NodesOfSize(k), r \in ForestsOfSize(n - k)} : k \in 1..n}

Forests == UNION {ForestsOfSize(n) : n \in 0..MaxNodes}

\* Deep ontologies: one desired root over any forest of descendants whose tags
\* are term, definition and descendants.
DeepOntologies == {<<(<<Term("Role"), Descendants(f)>>)>> : f \in Forests}

\* Flat ontologies: one desired root over one descendant with any tags, among
\* them a tag no branch matches and a descendants tag without children.
FlatOntologies ==
    {<<(<<Term("Role"), Descendants(<<s>>)>>)>> :
        s \in TagSeqs(NodeTags \cup {Level, Descendants(<<>>)}, MaxTags)}

\* Broad ontologies: up to MaxRoots roots, each with a term and/or a descendants
\* tag in either order, over at most one plainly named descendant.
SimpleForests == {<<>>} \cup {<<(<<Term(t)>>)>> : t \in Names}
Roots ==
    {<<>>}
    \cup {<<Term(t)>> : t \in RootTerms}
    \cup {<<Descendants(f)>> : f \in SimpleForests}
    \cup {<<Term(t), Descendants(f)>> : t \in RootTerms, f \in SimpleForests}
    \cup {<<Descendants(f), Term(t)>> : t \in RootTerms, f \in SimpleForests}
RECURSIVE RootSeqs(_)
RootSeqs(n) ==
    IF n = 0 THEN {<<>>}
    ELSE LET S == RootSeqs(n - 1) IN S \cup {Append(s, r) : s \in S, r \in Roots}
BroadOntologies == RootSeqs(MaxRoots)

Ontologies == DeepOntologies \cup FlatOntologies \cup BroadOntologies

\* -------------------------------------------------------------------- state
VARIABLES
    ontology,          \* the ontology element handed to ontology_dict: a sequence of roots
    dict,              \* ontology_dict's result: root name -> stored FlatMap
    descendants_dict,  \* the accumulator: key -> reference to a descendant_dict
    descendant_dict,   \* heap of the descendant_dict objects, one per call, by call number
    descendant,        \* the element each call was given, as its path in the ontology
    stack,             \* the active calls of parse_root_descendants, innermost last
    root,              \* index of the root ontology_dict is at
    root_tag,          \* index of the root's tag in the second loop; 0 before the filter
    child,             \* next child of the root's descendants tag; 0 outside such a tag
    returned           \* ontology_dict has returned dict

vars == <<ontology, dict, descendants_dict, descendant_dict, descendant, stack,
          root, root_tag, child, returned>>

desired_roots == {"Physiological effect", "Process", "Role"}

EmptyDict == [k \in {} |-> 0]
Put(d, k, v) == (k :> v) @@ d

Max(S) == CHOOSE m \in S : \A n \in S : n <= m

\* The text of the last term tag among an element's tags, '' when there is none.
LastTerm(element) ==
    LET at == {i \in 1..Len(element) : element[i].tag = "term"}
    IN IF at = {} THEN "" ELSE element[Max(at)].text

RootName(r) == LastTerm(r)

\* The filter lost: every root is taken.
DesiredAny(root_name) == TRUE
Desired(root_name) == root_name \in desired_roots

\* The element at a path <<root, tag, child, tag, child, ...>>.
RECURSIVE ElementAt(_)
ElementAt(path) ==
    IF Len(path) = 1 THEN ontology[path[1]]
    ELSE ElementAt(SubSeq(path, 1, Len(path) - 2))[path[Len(path) - 1]].kids[path[Len(path)]]

NewRecord(parent_node) == "parent_node" :> parent_node
\* The annotation never set.
SetAnnotationLost(record, text) == record
SetAnnotation(record, text) == ("annotation" :> text) @@ record

Top == stack[Len(stack)]
Element == ElementAt(descendant[Top.call])
Tag == Element[Top.tag]
AtTag(name) == /\ stack # <<>>
               /\ Top.tag <= Len(Element)
               /\ Tag.tag = name

\* The frame a call starts with.
Frame(call, parent_node) ==
    [call |-> call, parent_node |-> parent_node, descendant_name |-> "", tag |-> 1, child |-> 1]

\* The top frame after the loop has handled one more tag.
NextTag(frame) == [frame EXCEPT !.tag = @ + 1, !.child = 1]

SetTop(frame) == [stack EXCEPT ![Len(stack)] = frame]

Init ==
    /\ ontology \in Ontologies
    /\ dict = EmptyDict
    /\ descendants_dict = EmptyDict
    /\ descendant_dict = <<>>
    /\ descendant = <<>>
    /\ stack = <<>>
    /\ root = 1
    /\ root_tag = 0
    /\ child = 0
    /\ returned = FALSE

Running == ~returned /\ stack = <<>> /\ root <= Len(ontology)
Root == ontology[root]
InRoot == Running /\ root_tag >= 1 /\ root_tag <= Len(Root)

\* ------------------------------------------------------------ ontology_dict
\* A root whose name is not desired is passed over.
SkipRoot ==
    /\ Running /\ root_tag = 0
    /\ ~Desired(RootName(Root))
    /\ root' = root + 1
    /\ UNCHANGED <<ontology, dict, descendants_dict, descendant_dict, descendant, stack,
                   root_tag, child, returned>>

\* A desired root: the second loop over its tags begins.
EnterRoot ==
    /\ Running /\ root_tag = 0
    /\ Desired(RootName(Root))
    /\ root_tag' = 1
    /\ UNCHANGED <<ontology, dict, descendants_dict, descendant_dict, descendant, stack,
                   root, child, returned>>

\* A root tag other than descendants does nothing in the second loop.
RootTag ==
    /\ InRoot
    /\ Root[root_tag].tag # "descendants"
    /\ root_tag' = root_tag + 1
    /\ UNCHANGED <<ontology, dict, descendants_dict, descendant_dict, descendant, stack,
                   root, child, returned>>

\* The accumulator carried over from the descendants tag before.
RootDescendantsKept ==
    /\ InRoot /\ child = 0
    /\ Root[root_tag].tag = "descendants"
    /\ child' = 1
    /\ UNCHANGED <<ontology, dict, descendants_dict, descendant_dict, descendant, stack,
                   root, root_tag, returned>>

\* A descendants tag of the root: a fresh accumulator.
RootDescendants ==
    /\ InRoot /\ child = 0
    /\ Root[root_tag].tag = "descendants"
    /\ descendants_dict' = EmptyDict
    /\ child' = 1
    /\ UNCHANGED <<ontology, dict, descendant_dict, descendant, stack, root, root_tag, returned>>

\* parse_root_descendants is called on the next descendant below the root.
RootCall ==
    /\ InRoot /\ child >= 1
    /\ child <= Len(Root[root_tag].kids)
    /\ descendant' = Append(descendant, <<root, root_tag, child>>)
    /\ descendant_dict' = Append(descendant_dict, NewRecord(RootName(Root)))
    /\ stack' = <<Frame(Len(descendant) + 1, RootName(Root))>>
    /\ child' = child + 1
    /\ UNCHANGED <<ontology, dict, descendants_dict, root, root_tag, returned>>

\* The descendants are done: the accumulator is stored under the root's name.
StoreRoot ==
    /\ InRoot /\ child >= 1
    /\ child > Len(Root[root_tag].kids)
    /\ dict' = Put(dict, RootName(Root), descendants_dict)
    /\ root_tag' = root_tag + 1
    /\ child' = 0
    /\ UNCHANGED <<ontology, descendants_dict, descendant_dict, descendant, stack, root, returned>>

NextRoot ==
    /\ Running /\ root_tag > Len(Root)
    /\ root' = root + 1
    /\ root_tag' = 0
    /\ UNCHANGED <<ontology, dict, descendants_dict, descendant_dict, descendant, stack,
                   child, returned>>

ReturnDict ==
    /\ ~returned /\ stack = <<>> /\ root > Len(ontology)
    /\ returned' = TRUE
    /\ UNCHANGED <<ontology, dict, descendants_dict, descendant_dict, descendant, stack,
                   root, root_tag, child>>

\* --------------------------------------------------- parse_root_descendants
\* Every pass of the loop over the tags ends by storing the call's descendant_dict
\* under the name the call has at that moment.
TermTag ==
    /\ AtTag("term")
    /\ descendants_dict' = Put(descendants_dict, Tag.text, Top.call)
    /\ stack' = SetTop(NextTag([Top EXCEPT !.descendant_name = Tag.text]))
    /\ UNCHANGED <<ontology, dict, descendant_dict, descendant, root, root_tag, child, returned>>

DefinitionTag ==
    /\ AtTag("definition")
    /\ descendant_dict' = [descendant_dict EXCEPT ![Top.call] = SetAnnotation(@, Tag.text)]
    /\ descendants_dict' = Put(descendants_dict, Top.descendant_name, Top.call)
    /\ stack' = SetTop(NextTag(Top))
    /\ UNCHANGED <<ontology, dict, descendant, root, root_tag, child, returned>>

\* A tag no branch matches.
OtherTag ==
    /\ stack # <<>>
    /\ Top.tag <= Len(Element)
    /\ Tag.tag \notin {"term", "definition", "descendants"}
    /\ descendants_dict' = Put(descendants_dict, Top.descendant_name, Top.call)
    /\ stack' = SetTop(NextTag(Top))
    /\ UNCHANGED <<ontology, dict, descendant_dict, descendant, root, root_tag, child, returned>>

\* The recursion left out: a child is passed over without a call.
CallChildSkipped ==
    /\ AtTag("descendants")
    /\ Top.child <= Len(Tag.kids)
    /\ stack' = SetTop([Top EXCEPT !.child = @ + 1])
    /\ UNCHANGED <<ontology, dict, descendants_dict, descendant_dict, descendant,
                   root, root_tag, child, returned>>

\* The recursive call on the next child of a descendants tag; the parent it
\* passes is the name the caller has at that moment.
CallChild ==
    /\ AtTag("descendants")
    /\ Top.child <= Len(Tag.kids)
    /\ descendant' = Append(descendant, descendant[Top.call] \o <<Top.tag, Top.child>>)
    /\ descendant_dict' = Append(descendant_dict, NewRecord(Top.descendant_name))
    /\ stack' = Append(SetTop([Top EXCEPT !.child = @ + 1]),
                       Frame(Len(descendant) + 1, Top.descendant_name))
    /\ UNCHANGED <<ontology, dict, descendants_dict, root, root_tag, child, returned>>

\* The children of a descendants tag are done.
EndDescendants ==
    /\ AtTag("descendants")
    /\ Top.child > Len(Tag.kids)
    /\ descendants_dict' = Put(descendants_dict, Top.descendant_name, Top.call)
    /\ stack' = SetTop(NextTag(Top))
    /\ UNCHANGED <<ontology, dict, descendant_dict, descendant, root, root_tag, child, returned>>

\* The loop over the tags is done: the call returns the accumulator.
Return ==
    /\ stack # <<>>
    /\ Top.tag > Len(Element)
    /\ stack' = SubSeq(stack, 1, Len(stack) - 1)
    /\ UNCHANGED <<ontology, dict, descendants_dict, descendant_dict, descendant,
                   root, root_tag, child, returned>>

Next ==
    \/ SkipRoot
    \/ EnterRoot
    \/ RootTag
    \/ RootDescendants
    \/ RootCall
    \/ StoreRoot
    \/ NextRoot
    \/ ReturnDict
    \/ TermTag
    \/ DefinitionTag
    \/ OtherTag
    \/ CallChild
    \/ EndDescendants
    \/ Return

Spec == Init /\ [][Next]_vars

\* The interpreter runs the single thread of control to its end.
FairSpec == Spec /\ WF_vars(Next)

\* ------------------------------------------------------------- vocabulary
\* The paths of the descendant elements below a descendants tag, at any depth.
RECURSIVE PathsBelow(_, _)
PathsBelow(prefix, kids) ==
    UNION {{prefix \o <<c>>}
           \cup UNION {PathsBelow(prefix \o <<c, i>>, kids[c][i].kids) :
                         i \in {j \in 1..Len(kids[c]) : kids[c][j].tag = "descendants"}} :
           c \in 1..Len(kids)}

\* A flatten is the run of calls ontology_dict makes for one descendants tag of
\* one root; Section is that tag and SectionNodes the elements it reaches.
InSection == /\ ~returned /\ root <= Len(ontology)
             /\ root_tag >= 1 /\ root_tag <= Len(Root)
             /\ child >= 1
Section == <<root, root_tag>>
SectionNodes == PathsBelow(Section, Root[root_tag].kids)
\* The flatten has made its last call and the accumulator is what it returns.
FlattenDone == InSection /\ stack = <<>> /\ child > Len(Root[root_tag].kids)

Name(path) == LastTerm(ElementAt(path))
ParentName(path) ==
    IF Len(path) = 3 THEN RootName(ontology[path[1]])
    ELSE Name(SubSeq(path, 1, Len(path) - 2))
SameName(path) == {m \in SectionNodes : Name(m) = Name(path)}
HasTag(path, name) == name \in TagsOf(ElementAt(path))
TextOf(path, name) ==
    LET e == ElementAt(path) IN e[CHOOSE i \in 1..Len(e) : e[i].tag = name].text

IsAncestor(p, q) == Len(p) < Len(q) /\ SubSeq(q, 1, Len(p)) = p
\* q's own record is written before p's in the order of the walk: siblings left
\* to right, the elements below an element before the element itself.
WrittenBefore(q, p) ==
    \/ IsAncestor(p, q)
    \/ /\ ~IsAncestor(q, p)
       /\ q # p
       /\ LET k == CHOOSE i \in 1..Len(q) :
                       /\ q[i] # p[i]
                       /\ \A j \in 1..(i - 1) : q[j] = p[j]
          IN q[k] < p[k]
LastWritten(S) == CHOOSE p \in S : \A q \in S \ {p} : WrittenBefore(q, p)

\* The elements below the descendants tags of every desired root.
Reachable ==
    UNION {PathsBelow(<<r, t>>, ontology[r][t].kids) :
             <<r, t>> \in {x \in (1..Len(ontology)) \X (1..(MaxTags + 1)) :
                             /\ x[2] <= Len(ontology[x[1]])
                             /\ Desired(RootName(ontology[x[1]]))
                             /\ ontology[x[1]][x[2]].tag = "descendants"}}
Calls(path) == {c \in 1..Len(descendant) : descendant[c] = path}

\* ------------------------------------------------------------------ claims
\* C1: completeness.  When a flatten is done, the name of every element the
\* section reaches is a key of the accumulator it returns.
Completeness ==
    FlattenDone => \A n \in SectionNodes : Name(n) \in DOMAIN descendants_dict

\* C2: parent linkage.  When a flatten is done, an element whose name no other
\* element of the section carries, and whose own record is the one left under
\* its name, has there parent_node equal to the name of its immediate parent
\* (the root's name for a top-level sibling), whatever the order of the
\* parent's tags.
ParentLinkage ==
    FlattenDone =>
        \A n \in SectionNodes :
            (/\ SameName(n) = {n}
             /\ Name(n) \in DOMAIN descendants_dict
             /\ descendant[descendants_dict[Name(n)]] = n)
                => descendant_dict[descendants_dict[Name(n)]].parent_node = ParentName(n)

\* C3: overwrite rule.  When a flatten is done and several elements of the
\* section share a name, the record left under that name is the record of the
\* one among them that comes last in the order of the walk.
OverwriteRule ==
    FlattenDone =>
        \A n \in SectionNodes :
            Cardinality(SameName(n)) >= 2
                => /\ Name(n) \in DOMAIN descendants_dict
                   /\ descendant[descendants_dict[Name(n)]] = LastWritten(SameName(n))

\* C4: no spurious keys.  In every state of a flatten, every key of the
\* accumulator is the name of some element the section reaches.
NoSpuriousKeys ==
    InSection => \A k \in DOMAIN descendants_dict : \E n \in SectionNodes : Name(n) = k

\* C5: unrecognized tags are ignored.  The step that handles a tag no branch
\* matches leaves the accumulator and the records it refers to as they were.
UnrecognizedIgnored ==
    [][OtherTag => /\ descendants_dict' = descendants_dict
                   /\ descendant_dict' = descendant_dict]_vars

\* C6: annotation carry.  Every record the returned FlatMap holds has an
\* annotation exactly when the element it was made for has a definition tag,
\* the annotation is that tag's text, and without one the record holds
\* parent_node only -- wherever the definition tag stands among the tags.
Carried(call) ==
    LET n == descendant[call]
        record == descendant_dict[call]
    IN IF HasTag(n, "definition")
       THEN /\ DOMAIN record = {"parent_node", "annotation"}
            /\ record["annotation"] = TextOf(n, "definition")
       ELSE DOMAIN record = {"parent_node"}
AnnotationCarry ==
    /\ FlattenDone => \A k \in DOMAIN descendants_dict : Carried(descendants_dict[k])
    /\ returned => \A r \in DOMAIN dict : \A k \in DOMAIN dict[r] : Carried(dict[r][k])
\* A flatten is done and a surviving record carries the annotation of a
\* definition tag that came after the term tag had already stored the record.
AnnotationCarryWitness ==
    /\ FlattenDone
    /\ \E k \in DOMAIN descendants_dict :
          LET e == ElementAt(descendant[descendants_dict[k]])
          IN /\ Len(e) >= 2
             /\ e[1].tag = "term" /\ e[2].tag = "definition"
             /\ k = e[1].text
             /\ "annotation" \in DOMAIN descendant_dict[descendants_dict[k]]
    /\ \E k \in DOMAIN descendants_dict :
          ~HasTag(descendant[descendants_dict[k]], "definition")

\* C7: a nameless element still yields an entry.  When a flatten is done and
\* the section reaches elements without a name, '' is a key and its record is
\* that of the last such element.
NamelessEntry ==
    FlattenDone =>
        LET nameless == {n \in SectionNodes : Name(n) = ""}
        IN nameless # {}
              => /\ "" \in DOMAIN descendants_dict
                 /\ descendant[descendants_dict[""]] = LastWritten(nameless)

\* C8: termination.  ontology_dict eventually returns, and when it has, no call
\* is still active and every reachable element was given to exactly one call.
ProcessedOnce ==
    /\ stack = <<>>
    /\ \A n \in Reachable : Cardinality(Calls(n)) = 1
    /\ \A c \in 1..Len(descendant) : descendant[c] \in Reachable
Termination == <>returned /\ [](returned => ProcessedOnce)
\* ontology_dict has returned from a walk that went below a top-level sibling.
TerminationWitness ==
    /\ returned
    /\ \E c \in 1..Len(descendant) : Len(descendant[c]) = 5

\* C9: accumulator isolation.  The FlatMap stored under a root name holds only
\* records made for elements below one descendants tag of one root of that
\* name, and so does the accumulator of the flatten under way.
AccumulatorIsolation ==
    /\ \A rn \in DOMAIN dict :
          \E r \in 1..Len(ontology) : \E t \in 1..Len(ontology[r]) :
              /\ RootName(ontology[r]) = rn
              /\ \A k \in DOMAIN dict[rn] : SubSeq(descendant[dict[rn][k]], 1, 2) = <<r, t>>
    /\ InSection =>
          \A k \in DOMAIN descendants_dict :
              SubSeq(descendant[descendants_dict[k]], 1, 2) = Section
\* Two roots of different names have each had a non-empty FlatMap stored.
AccumulatorIsolationWitness ==
    /\ returned
    /\ \E a, b \in DOMAIN dict : a # b /\ dict[a] # EmptyDict /\ dict[b] # EmptyDict

\* C10: root filter.  Every key of the result is a desired root name, carried
\* by a root that has a descendants tag; no call is ever made for an element
\* below a root whose name is not desired.
RootFilter ==
    /\ DOMAIN dict \subseteq {"Physiological effect", "Process", "Role"}
    /\ \A rn \in DOMAIN dict :
          \E r \in 1..Len(ontology) :
              /\ RootName(ontology[r]) = rn
              /\ "descendants" \in TagsOf(ontology[r])
    /\ \A c \in 1..Len(descendant) :
          RootName(ontology[descendant[c][1]]) \in {"Physiological effect", "Process", "Role"}
\* ontology_dict has returned a result with a key, having passed over a root
\* whose term is not desired and whose descendants tag holds an element.
RootFilterWitness ==
    /\ returned
    /\ dict # EmptyDict
    /\ \E r \in 1..Len(ontology) :
          /\ RootName(ontology[r]) \notin {"Physiological effect", "Process", "Role"}
          /\ \E t \in 1..Len(ontology[r]) : ontology[r][t].kids # <<>>

====
